---- MODULE Spec2Model ----
(***************************************************************************)
(* Model of movis.layer.composition.Composition: the ordered layer list,   *)
(* the weak name index, the alpha-matte coupling, the preview scopes and   *)
(* the frame cache of the render path.                                     *)
(***************************************************************************)
EXTENDS Integers, Sequences, FiniteSets, TLC

\* ---------------------------------------------------------------- bounds
\* Component objects that exist at the same time.
MaxComp == 3
\* Length of the ordered layer list.
MaxLayers == 2
\* Entries the frame cache holds before it culls the oldest one.
MaxCache == 1
\* Depth of nested preview()/final() scopes.
MaxScopes == 2
\* Render times are 0..MaxTime.
MaxTime == 2
\* Layers added to a Composition that is rendered.
MaxPainted == 1

\* ---------------------------------------------------------------- inputs
Ids == 1..MaxComp
NoId == 0
NoName == "<None>"
ExplicitNames == {"a", "layer_1"}
Times == 0..MaxTime
\* end_time=None
NoEnd == -1
\* transform=None
NoTransform == <<-1, -1>>
\* Transform(), placed at the origin
OriginTransform == <<0, 0>>
Layers == {"img", "vid"}
\* add_layer offset, start_time and end_time arguments of the keyed layers.
Offsets == {0, 1}
StartTimes == {0, 1}
EndTimeArgs == {NoEnd, 1}
\* Composition(size=..., duration=...): the constructor's arguments.
CtorSizes == {<<4, 2>>, <<0, 2>>}
CtorDurations == {1, 0}
\* Values assigned to size and duration, and levels passed to preview().
Sizes == {<<4, 2>>, <<8, 4>>, <<0, 2>>, <<4, 2, 1>>}
Durations == {1, 0}
Levels == {0, 1, 2}

\* f"layer_{len(self._layers)}"
DefaultName(n) == "layer_" \o ToString(n)

Names == ExplicitNames \cup {DefaultName(n) : n \in 0..(MaxLayers - 1)}

\* ------------------------------------------------------------ components
\* Layer.duration of the two layer kinds.
LayerDuration(l) == IF l = "img" THEN 1 ELSE 2

NoComp ==
  [name |-> "", layer |-> "", transform |-> <<0, 0>>, offset |-> 0,
   start_time |-> 0, end_time |-> 0, visible |-> FALSE, matte |-> NoId]

\* Component(name, layer, transform, offset=..., start_time=..., end_time=...,
\* visible=...) as add_layer constructs it.
NewComponent(name, layer, transform, offset, start_time, end_time, visible) ==
  [name |-> name, layer |-> layer, transform |-> transform, offset |-> offset,
   start_time |-> start_time, end_time |-> end_time, visible |-> visible,
   matte |-> NoId]

\* Transform(position=(self.size[0] / 2, self.size[1] / 2))
DefaultTransform(sz) == <<sz[1] \div 2, sz[2] \div 2>>

VARIABLES
  comps,          \* the Component objects: id -> fields
  alive,          \* ids of the Component objects that still exist
  held,           \* Components the caller holds a reference to
  layers,         \* Composition._layers
  name_to_layer,  \* Composition._name_to_layer (WeakValueDictionary)
  size,           \* Composition._size
  duration,       \* Composition._duration
  preview_level,  \* Composition._preview_level
  scopes,         \* open preview()/final() generators, innermost last
  cache,          \* Composition._cache, oldest entry first
  last            \* the last call and its outcome

vars == <<comps, alive, held, layers, name_to_layer, size, duration,
          preview_level, scopes, cache, last>>

Range(s) == {s[i] : i \in 1..Len(s)}

\* --------------------------------------------------------- object lifetime
\* A Component is referenced by the layer list, by the caller, or by the
\* alpha-matte link of a Component that still exists.
Referenced(c, L, H, C, A) ==
  \/ c \in Range(L)
  \/ c \in H
  \/ \E d \in A : C[d].matte = c

RECURSIVE Survive(_, _, _, _)
\* Reference counting: objects nothing refers to are freed at once.
Survive(A, L, H, C) ==
  LET dead == {c \in A : ~Referenced(c, L, H, C, A)}
  IN IF dead = {} THEN A ELSE Survive(A \ dead, L, H, C)

RECURSIVE Reach(_, _)
Reach(R, C) ==
  LET more == {C[c].matte : c \in R} \ (R \cup {NoId})
  IN IF more = {} THEN R ELSE Reach(R \cup more, C)

\* The cycle collector: only objects reachable from the list or the caller stay.
Reachable(L, H, C) == Reach(Range(L) \cup H, C)

\* A WeakValueDictionary entry disappears with its value.
WeakEntries(N, A) == [n \in Names |-> IF N[n] \in A THEN N[n] ELSE NoId]

\* The state of the object graph once the call has returned.
Commit(L, H, C, N, A) ==
  LET A2 == Survive(A, L, H, C)
  IN /\ alive' = A2
     /\ comps' = [c \in Ids |-> IF c \in A2 THEN C[c] ELSE NoComp]
     /\ held' = H \cap A2
     /\ layers' = L
     /\ name_to_layer' = WeakEntries(N, A2)

NoFrame == [shape |-> <<0, 0>>, paint |-> <<>>]

Result(op, name, arg, ok, err, ret) ==
  [op |-> op, name |-> name, arg |-> arg, ok |-> ok, err |-> err, ret |-> ret,
   t |-> 0, path |-> "", frame |-> NoFrame, again |-> FALSE, entered |-> 0,
   key |-> <<>>, end_time |-> 0, times |-> <<>>]

\* ------------------------------------------------------------ pure lookups
\* Composition.keys
keys == [i \in 1..Len(layers) |-> comps[layers[i]].name]

\* Composition.values
values == layers

\* Composition.items
items == [i \in 1..Len(layers) |-> <<comps[layers[i]].name, layers[i]>>]

\* Composition.__len__
len == Len(layers)

\* `key in self._name_to_layer`
InIndex(N, name) == N[name] # NoId

\* Component defines no comparison with str: == falls back to identity.
ComponentEqStr(c, name) == FALSE

\* `name in self._layers`: list membership compares the str with each Component.
NameInLayers(name) == \E i \in 1..Len(layers) : ComponentEqStr(layers[i], name)

\* Positions of the Components named name in the layer list.
Named(L, C, name) == {i \in 1..Len(L) : C[L[i]].name = name}

RemoveAt(s, i) == SubSeq(s, 1, i - 1) \o SubSeq(s, i + 1, Len(s))

FreshId == CHOOSE c \in Ids \ alive : \A d \in Ids \ alive : c <= d

\* ------------------------------------------------------------------- Init
\* Composition(size, duration)
Construct(sz, d) ==
  /\ comps = [c \in Ids |-> NoComp]
  /\ alive = {}
  /\ held = {}
  /\ layers = <<>>
  /\ name_to_layer = [n \in Names |-> NoId]
  /\ size = sz
  /\ duration = d
  /\ preview_level = 1
  /\ scopes = <<>>
  /\ cache = <<>>
  /\ last = Result("init", "", "", TRUE, "", NoId)

\* Composition(): size=(1920, 1080), duration=1.0
Init == Construct(<<1920, 1080>>, 1)

\* Composition(size=..., duration=...)
InitArgs == \E sz \in CtorSizes, d \in CtorDurations : Construct(sz, d)

\* ------------------------------------------------------- layer management
\* Composition.add_layer; keep says whether the caller keeps the result.
AddLayerBody(op, layer, nameArg, transformArg, offset, start_time, endArg, visible, keep) ==
  LET name == IF nameArg = NoName THEN DefaultName(Len(layers)) ELSE nameArg
  IN IF NameInLayers(name)
     THEN /\ last' = Result(op, name, "", FALSE, "KeyError", NoId)
          /\ UNCHANGED <<comps, alive, held, layers, name_to_layer>>
     ELSE /\ Len(layers) < MaxLayers
          /\ Ids \ alive # {}
          /\ LET id == FreshId
                 end_time == IF endArg = NoEnd THEN LayerDuration(layer) ELSE endArg
                 transform == IF transformArg = NoTransform
                              THEN DefaultTransform(size) ELSE transformArg
                 c == NewComponent(name, layer, transform, offset,
                                   start_time, end_time, visible)
                 C == [comps EXCEPT ![id] = c]
                 N == [name_to_layer EXCEPT ![name] = id]
             IN /\ Commit(Append(layers, id),
                          IF keep THEN held \cup {id} ELSE held,
                          C, N, alive \cup {id})
                /\ last' = Result(op, name, "", TRUE, "", id)

AddLayer(layer, nameArg, transformArg, offset, start_time, endArg, visible, keep) ==
  /\ AddLayerBody("add_layer", layer, nameArg, transformArg, offset,
                  start_time, endArg, visible, keep)
  /\ UNCHANGED <<size, duration, preview_level, scopes, cache>>

\* Composition.__setitem__ with a Component the caller has just constructed.
SetItemNew(key, name, layer) ==
  /\ Len(layers) < MaxLayers
  /\ Ids \ alive # {}
  /\ LET id == FreshId
         c == NewComponent(name, layer, DefaultTransform(size), 0, 0,
                           LayerDuration(layer), TRUE)
     IN /\ Commit(Append(layers, id), held, [comps EXCEPT ![id] = c],
                  [name_to_layer EXCEPT ![key] = id], alive \cup {id})
        /\ last' = Result("setitem", key, name, TRUE, "", id)
  /\ UNCHANGED <<size, duration, preview_level, scopes, cache>>

\* Composition.__setitem__ with a Component the caller already holds.
SetItemHeld(key, c) ==
  /\ c \in held
  /\ Len(layers) < MaxLayers
  /\ Commit(Append(layers, c), held, comps,
            [name_to_layer EXCEPT ![key] = c], alive)
  /\ last' = Result("setitem", key, comps[c].name, TRUE, "", c)
  /\ UNCHANGED <<size, duration, preview_level, scopes, cache>>

\* Composition.__setitem__ with a Layer (a callable): add_layer(value, name=key).
SetItemLayer(key, layer) ==
  /\ AddLayerBody("add_layer", layer, key, NoTransform, 0, 0, NoEnd, TRUE, FALSE)
  /\ UNCHANGED <<size, duration, preview_level, scopes, cache>>

\* Composition.__setitem__ with a value that is neither.
SetItemInvalid(key) ==
  /\ last' = Result("setitem", key, "", FALSE, "ValueError", NoId)
  /\ UNCHANGED <<comps, alive, held, layers, name_to_layer, size, duration,
                 preview_level, scopes, cache>>

\* Composition.__getitem__
GetItem(name) ==
  /\ IF InIndex(name_to_layer, name)
     THEN /\ Commit(layers, held \cup {name_to_layer[name]},
                    comps, name_to_layer, alive)
          /\ last' = Result("getitem", name, "", TRUE, "", name_to_layer[name])
     ELSE /\ last' = Result("getitem", name, "", FALSE, "KeyError", NoId)
          /\ UNCHANGED <<comps, alive, held, layers, name_to_layer>>
  /\ UNCHANGED <<size, duration, preview_level, scopes, cache>>

\* Composition.pop_layer
PopLayerBody(op, name, keep) ==
  IF ~InIndex(name_to_layer, name)
  THEN /\ last' = Result(op, name, "", FALSE, "KeyError", NoId)
       /\ UNCHANGED <<comps, alive, held, layers, name_to_layer>>
  ELSE IF Named(layers, comps, name) = {}
  THEN \* next() of the exhausted generator
       /\ last' = Result(op, name, "", FALSE, "StopIteration", NoId)
       /\ UNCHANGED <<comps, alive, held, layers, name_to_layer>>
  ELSE LET index == CHOOSE i \in Named(layers, comps, name) :
                      \A j \in Named(layers, comps, name) : i <= j
           component == layers[index]
       IN /\ Commit(RemoveAt(layers, index),
                    IF keep THEN held \cup {component} ELSE held,
                    comps, name_to_layer, alive)
          /\ last' = Result(op, name, "", TRUE, "", component)

PopLayer(name, keep) ==
  /\ PopLayerBody("pop_layer", name, keep)
  /\ UNCHANGED <<size, duration, preview_level, scopes, cache>>

\* Composition.__delitem__
DelItem(name) ==
  /\ PopLayerBody("pop_layer", name, FALSE)
  /\ UNCHANGED <<size, duration, preview_level, scopes, cache>>

\* The caller lets go of a Component.
Drop(c) ==
  /\ c \in held
  /\ Commit(layers, held \ {c}, comps, name_to_layer, alive)
  /\ last' = Result("drop", "", "", TRUE, "", c)
  /\ UNCHANGED <<size, duration, preview_level, scopes, cache>>

\* The cycle collector runs.
Collect ==
  /\ alive # Reachable(layers, held, comps)
  /\ Commit(layers, held, comps, name_to_layer, Reachable(layers, held, comps))
  /\ last' = Result("gc", "", "", TRUE, "", NoId)
  /\ UNCHANGED <<size, duration, preview_level, scopes, cache>>

\* ------------------------------------------------------------ alpha matte
\* Component.enable_alpha_matte: a Component that has a matte refuses another.
ComponentCanEnable(c) == c.matte = NoId

\* Composition.enable_alpha_matte
EnableAlphaMatte(source_name, target_name, keep) ==
  /\ IF ~(InIndex(name_to_layer, source_name) /\ InIndex(name_to_layer, target_name))
     THEN /\ last' = Result("enable_alpha_matte", source_name, target_name,
                            FALSE, "AssertionError", NoId)
          /\ UNCHANGED <<comps, alive, held, layers, name_to_layer>>
     ELSE IF Named(layers, comps, target_name) = {}
     THEN \* pop_layer(target_name): next() of the exhausted generator
          /\ last' = Result("enable_alpha_matte", source_name, target_name,
                            FALSE, "StopIteration", NoId)
          /\ UNCHANGED <<comps, alive, held, layers, name_to_layer>>
     ELSE LET index == CHOOSE i \in Named(layers, comps, target_name) :
                         \A j \in Named(layers, comps, target_name) : i <= j
              target == layers[index]
              source == name_to_layer[source_name]
              L == RemoveAt(layers, index)
          IN IF ~ComponentCanEnable(comps[source])
             THEN /\ Commit(L, held, comps, name_to_layer, alive)
                  /\ last' = Result("enable_alpha_matte", source_name,
                                    target_name, FALSE, "MatteError", target)
             ELSE /\ Commit(L, IF keep THEN held \cup {source} ELSE held,
                            [comps EXCEPT ![source].matte = target],
                            name_to_layer, alive)
                  /\ last' = Result("enable_alpha_matte", source_name,
                                    target_name, TRUE, "", source)
  /\ UNCHANGED <<size, duration, preview_level, scopes, cache>>

\* A disable_alpha_matte that puts the detached target back at the end of the
\* layer list.
DisableAlphaMatteReinserts(name, keep) ==
  /\ IF ~InIndex(name_to_layer, name)
     THEN /\ last' = Result("disable_alpha_matte", name, "", FALSE, "KeyError",
                            NoId)
          /\ UNCHANGED <<comps, alive, held, layers, name_to_layer>>
     ELSE LET source == name_to_layer[name]
              target == comps[source].matte
          IN /\ Commit(IF target # NoId THEN Append(layers, target) ELSE layers,
                       IF keep /\ target # NoId THEN held \cup {target} ELSE held,
                       [comps EXCEPT ![source].matte = NoId],
                       name_to_layer, alive)
             /\ last' = Result("disable_alpha_matte", name, "", TRUE, "", target)
  /\ UNCHANGED <<size, duration, preview_level, scopes, cache>>

\* Composition.disable_alpha_matte
DisableAlphaMatte(name, keep) ==
  /\ IF ~InIndex(name_to_layer, name)
     THEN /\ last' = Result("disable_alpha_matte", name, "", FALSE, "KeyError",
                            NoId)
          /\ UNCHANGED <<comps, alive, held, layers, name_to_layer>>
     ELSE LET source == name_to_layer[name]
              target == comps[source].matte
          IN /\ Commit(layers,
                       IF keep /\ target # NoId THEN held \cup {target} ELSE held,
                       [comps EXCEPT ![source].matte = NoId],
                       name_to_layer, alive)
             /\ last' = Result("disable_alpha_matte", name, "", TRUE, "", target)
  /\ UNCHANGED <<size, duration, preview_level, scopes, cache>>

\* ---------------------------------------------------------- configuration
\* Composition.size setter
SetSize(sz) ==
  /\ IF Len(sz) = 2 /\ sz[1] > 0 /\ sz[2] > 0
     THEN /\ size' = sz
          /\ last' = Result("set_size", "", "", TRUE, "", NoId)
     ELSE /\ size' = size
          /\ last' = Result("set_size", "", "", FALSE, "AssertionError", NoId)
  /\ UNCHANGED <<comps, alive, held, layers, name_to_layer, duration,
                 preview_level, scopes, cache>>

\* Composition.duration setter
SetDuration(d) ==
  /\ IF d > 0
     THEN /\ duration' = d
          /\ last' = Result("set_duration", "", "", TRUE, "", NoId)
     ELSE /\ duration' = duration
          /\ last' = Result("set_duration", "", "", FALSE, "AssertionError", NoId)
  /\ UNCHANGED <<comps, alive, held, layers, name_to_layer, size,
                 preview_level, scopes, cache>>

\* The level saved only after the new level was assigned.
SavedLevelAfter(before, after) == after

\* original_level = self._preview_level, read before the level is assigned.
SavedLevel(before, after) == before

\* A scope as the generator of preview()/final() holds it while suspended at
\* its yield; entered is the level in force when the with-statement began.
Scope(kind, before, after) ==
  [kind |-> kind, original_level |-> SavedLevel(before, after),
   entered |-> before]

\* Composition.preview, up to its yield
EnterPreview(level) ==
  /\ IF level > 0
     THEN /\ Len(scopes) < MaxScopes
          /\ scopes' = Append(scopes, Scope("preview", preview_level, level))
          /\ preview_level' = level
          /\ last' = Result("preview", "", "", TRUE, "", NoId)
     ELSE /\ UNCHANGED <<scopes, preview_level>>
          /\ last' = Result("preview", "", "", FALSE, "AssertionError", NoId)
  /\ UNCHANGED <<comps, alive, held, layers, name_to_layer, size, duration,
                 cache>>

\* Composition.final, up to its yield
EnterFinal ==
  /\ Len(scopes) < MaxScopes
  /\ scopes' = Append(scopes, Scope("final", preview_level, 1))
  /\ preview_level' = 1
  /\ last' = Result("final", "", "", TRUE, "", NoId)
  /\ UNCHANGED <<comps, alive, held, layers, name_to_layer, size, duration,
                 cache>>

\* The finally clause of preview()/final(): the innermost with-block ends,
\* normally or (error) by an exception raised inside it.
ExitScope(error) ==
  /\ scopes # <<>>
  /\ LET top == scopes[Len(scopes)]
     IN /\ preview_level' = top.original_level
        /\ last' = [Result("exit_scope", top.kind, "", ~error,
                           IF error THEN "Raised" ELSE "", NoId)
                    EXCEPT !.entered = top.entered]
  /\ scopes' = SubSeq(scopes, 1, Len(scopes) - 1)
  /\ UNCHANGED <<comps, alive, held, layers, name_to_layer, size, duration,
                 cache>>

\* ------------------------------------------------------------------ render
\* The None entry of a Component outside its time window.
Absent == <<"absent", <<"", 0>>, <<0, 0>>, <<"", 0>>>>

\* Layer.get_key: a still image has one key, a video one key per time.
LayerKey(l, layer_time) == <<l, IF l = "img" THEN 0 ELSE layer_time>>

\* Component.get_key: the layer's key, the transform, and the matte linkage.
SubKey(C, c, layer_time) ==
  <<"key", LayerKey(C[c].layer, layer_time), C[c].transform,
    IF C[c].matte = NoId THEN <<"", 0>>
    ELSE LayerKey(C[C[c].matte].layer, layer_time)>>

\* A window test that is closed at end_time.
OutsideWindowClosed(c, layer_time) ==
  layer_time < c.start_time \/ c.end_time < layer_time

\* The window test of Composition.get_key.
OutsideWindow(c, layer_time) ==
  layer_time < c.start_time \/ c.end_time <= layer_time

\* Composition.get_key
GetKey(L, C, time) ==
  <<"COMPOSITION">> \o
  [i \in 1..Len(L) |->
     LET layer_time == time - C[L[i]].offset
     IN IF OutsideWindow(C[L[i]], layer_time) THEN Absent
        ELSE SubKey(C, L[i], layer_time)]

\* Component._composite: an active, visible Component paints its content, as
\* rendered at the preview level, on the accumulator; the shape is kept.
Composite(frame, C, c, time, level) ==
  LET layer_time == time - C[c].offset
  IN IF C[c].visible /\ ~OutsideWindow(C[c], layer_time)
     THEN [frame EXCEPT !.paint = Append(@, <<SubKey(C, c, layer_time), level>>)]
     ELSE frame

RECURSIVE Fold(_, _, _, _, _, _)
\* for component in self._layers: frame = component._composite(frame, ...)
Fold(frame, L, C, i, time, level) ==
  IF i > Len(L) THEN frame
  ELSE Fold(Composite(frame, C, L[i], time, level), L, C, i + 1, time, level)

\* np.zeros(current_shape + (4,), dtype=np.uint8)
Zeros(shape) == [shape |-> shape, paint |-> <<>>]

\* self.size[1] // L, self.size[0] // L
CurrentShape(sz, level) == <<sz[2] \div level, sz[1] \div level>>

\* The frame a render without a cache computes.
Compute(L, C, sz, level, time) ==
  Fold(Zeros(CurrentShape(sz, level)), L, C, 1, time, level)

\* key in self._cache
CacheHas(ch, key) == \E i \in 1..Len(ch) : ch[i].key = key

\* self._cache[key]
CacheGet(ch, key) == ch[CHOOSE i \in 1..Len(ch) : ch[i].key = key].frame

\* del self._cache[key]
CacheDel(ch, key) == SelectSeq(ch, LAMBDA e : e.key # key)

\* An insertion over the limit that culls the newest entry, the inserted one.
CachePutCullsNewest(ch, key, frame) ==
  LET new == Append(CacheDel(ch, key), [key |-> key, frame |-> frame])
  IN IF Len(new) > MaxCache THEN SubSeq(new, 1, MaxCache) ELSE new

\* self._cache[key] = frame; over its limit the cache culls its oldest entries.
CachePut(ch, key, frame) ==
  LET new == Append(CacheDel(ch, key), [key |-> key, frame |-> frame])
  IN IF Len(new) > MaxCache THEN SubSeq(new, Len(new) - MaxCache + 1, Len(new))
     ELSE new

\* Composition.get_key, called by the user.
GetKeyAt(time) ==
  /\ last' = [Result("get_key", "", "", TRUE, "", NoId) EXCEPT
                !.t = time, !.key = GetKey(layers, comps, time)]
  /\ UNCHANGED <<comps, alive, held, layers, name_to_layer, size, duration,
                 preview_level, scopes, cache>>

\* A cached frame accepted whatever its shape.
ShapeMatchesAny(frame, shape) == TRUE

\* cached_frame.shape[:2] == current_shape
ShapeMatches(frame, shape) == frame.shape = shape

\* The previous call was a render of the same time.
Repeated(time) == last.op = "render" /\ last.t = time

\* A pass through __call__ that composites the layers from the last index down
\* to the first.
CallPaintsBackwards(ch, time) ==
  LET key == GetKey(layers, comps, time)
      current_shape == CurrentShape(size, preview_level)
      found == CacheHas(ch, key)
      reversed == [i \in 1..Len(layers) |-> layers[Len(layers) + 1 - i]]
  IN IF found /\ ShapeMatches(CacheGet(ch, key), current_shape)
     THEN [cache |-> ch, frame |-> CacheGet(ch, key), path |-> "hit"]
     ELSE LET frame == Fold(Zeros(current_shape), reversed, comps, 1, time,
                            preview_level)
          IN [cache |-> CachePut(IF found THEN CacheDel(ch, key) ELSE ch,
                                 key, frame),
              frame |-> frame,
              path |-> IF found THEN "evict" ELSE "miss"]

\* One pass through Composition.__call__ on the cache ch: the cache it leaves,
\* the frame it returns and the path it took.
Call(ch, time) ==
  LET key == GetKey(layers, comps, time)
      current_shape == CurrentShape(size, preview_level)
      found == CacheHas(ch, key)
  IN IF found /\ ShapeMatches(CacheGet(ch, key), current_shape)
     THEN [cache |-> ch, frame |-> CacheGet(ch, key), path |-> "hit"]
     ELSE LET frame == Fold(Zeros(current_shape), layers, comps, 1, time,
                            preview_level)
          IN [cache |-> CachePut(IF found THEN CacheDel(ch, key) ELSE ch,
                                 key, frame),
              frame |-> frame,
              path |-> IF found THEN "evict" ELSE "miss"]

\* What Composition.__call__ assigns: the cache, and the frame it returns.
RenderEffect(time) ==
  LET r == Call(cache, time)
  IN /\ cache' = r.cache
     /\ last' = [Result("render", "", "", TRUE, "", NoId) EXCEPT
                   !.t = time, !.path = r.path, !.frame = r.frame,
                   !.again = Repeated(time)]

\* A render that keeps the working resolution as the size.
RenderKeepsWorkingSize(time) ==
  /\ RenderEffect(time)
  /\ size' = <<size[1] \div preview_level, size[2] \div preview_level>>
  /\ UNCHANGED <<comps, alive, held, layers, name_to_layer, duration,
                 preview_level, scopes>>

\* Composition.__call__
Render(time) ==
  /\ RenderEffect(time)
  /\ UNCHANGED <<comps, alive, held, layers, name_to_layer, size, duration,
                 preview_level, scopes>>

\* ------------------------------------------------------------ bulk export
\* write_video is modelled at fps = 10 with time counted in tenths of a
\* second, so that the step 1.0 / fps is one unit.
VideoStarts == {0, 1, 3}
VideoEnds == {NoEnd, 2, 4}

\* The pairs of VideoStarts and VideoEnds for which the IEEE double quotient
\* (end_time - start_time) / (1.0 / fps) lies above the exact one:
\* (0.4 - 0.1) / 0.1 = 3.0000000000000004, (0.4 - 0.3) / 0.1 = 1.0000000000000002.
QuotientRoundsUp(start_time, end_time) ==
  <<start_time, end_time>> \in {<<1, 4>>, <<3, 4>>}

\* len(np.arange(start_time, end_time, 1.0 / fps)): the ceiling of the double
\* quotient.
ArangeLen(start_time, end_time) ==
  LET exact == IF end_time > start_time THEN end_time - start_time ELSE 0
  IN IF QuotientRoundsUp(start_time, end_time) THEN exact + 1 ELSE exact

\* np.arange(start_time, end_time, 1.0 / fps): start_time + i * step
Arange(start_time, end_time) ==
  [i \in 1..ArangeLen(start_time, end_time) |-> start_time + (i - 1)]

RECURSIVE RenderAll(_, _, _)
\* for t in times: frame = np.asarray(self(t)); writer.append_data(frame)
RenderAll(ch, times, i) ==
  IF i > Len(times) THEN ch
  ELSE RenderAll(Call(ch, times[i]).cache, times, i + 1)

\* Composition.write_video
WriteVideo(start_time, endArg) ==
  LET end_time == IF endArg = NoEnd THEN duration ELSE endArg
      times == Arange(start_time, end_time)
      rendered == RenderAll(cache, times, 1)
  IN /\ cache' = SubSeq(rendered, 1, 0)
     /\ last' = [Result("write_video", "", "", TRUE, "", NoId) EXCEPT
                   !.t = start_time, !.end_time = end_time, !.times = times]
     /\ UNCHANGED <<comps, alive, held, layers, name_to_layer, size, duration,
                    preview_level, scopes>>

\* ---------------------------------------------------------- specifications
\* Layer management of a default Composition.
Next ==
  \/ \E n \in ExplicitNames \cup {NoName}, k \in BOOLEAN :
       AddLayer("img", n, NoTransform, 0, 0, NoEnd, TRUE, k)
  \/ \E key \in ExplicitNames : SetItemNew(key, key, "img")
  \/ \E c \in Ids : SetItemHeld(comps[c].name, c)
  \/ \E key \in ExplicitNames : SetItemLayer(key, "img")
  \/ \E key \in ExplicitNames : SetItemInvalid(key)
  \/ \E n \in Names : GetItem(n)
  \/ \E n \in Names, k \in BOOLEAN : PopLayer(n, k)
  \/ \E n \in Names : DelItem(n)
  \/ \E c \in Ids : Drop(c)

Spec == Init /\ [][Next]_vars

\* Alpha-matte coupling of the layers of a default Composition.
NextMatte ==
  \/ \E n \in ExplicitNames : AddLayer("img", n, NoTransform, 0, 0, NoEnd, TRUE, FALSE)
  \/ \E n \in ExplicitNames, k \in BOOLEAN : PopLayer(n, k)
  \/ \E n \in ExplicitNames : GetItem(n)
  \/ \E c \in Ids : Drop(c)
  \/ Collect
  \/ \E n \in ExplicitNames, m \in ExplicitNames, k \in BOOLEAN :
       EnableAlphaMatte(n, m, k)
  \/ \E n \in ExplicitNames, k \in BOOLEAN : DisableAlphaMatte(n, k)

SpecMatte == Init /\ [][NextMatte]_vars

\* Linking and unlinking mattes among up to MaxLayers named layers.
NextRelink ==
  \/ \E n \in Names : AddLayer("img", n, NoTransform, 0, 0, NoEnd, TRUE, FALSE)
  \/ \E n \in Names, m \in Names : EnableAlphaMatte(n, m, FALSE)
  \/ \E n \in Names : DisableAlphaMatte(n, FALSE)

SpecRelink == Init /\ [][NextRelink]_vars

\* Detaching mattes, with the caller keeping and re-adding what it gets back.
NextDetach ==
  \/ \E n \in ExplicitNames : AddLayer("img", n, NoTransform, 0, 0, NoEnd, TRUE, FALSE)
  \/ EnableAlphaMatte("a", "layer_1", FALSE)
  \/ \E n \in ExplicitNames, k \in BOOLEAN : DisableAlphaMatte(n, k)
  \/ \E c \in Ids : SetItemHeld(comps[c].name, c)
  \/ \E c \in Ids : Drop(c)

SpecDetach == Init /\ [][NextDetach]_vars

\* Adding, popping and painting layers of two kinds.
NextOrder ==
  \/ AddLayer("img", "a", OriginTransform, 0, 0, NoEnd, TRUE, FALSE)
  \/ AddLayer("vid", "layer_1", OriginTransform, 0, 0, NoEnd, TRUE, FALSE)
  \/ \E n \in ExplicitNames : PopLayer(n, FALSE)
  \/ \E time \in {0, 1} : Render(time)

SpecOrder == Init /\ [][NextOrder]_vars

\* Size, duration and preview scopes of a Composition built with arguments.
NextConfig ==
  \/ \E sz \in Sizes : SetSize(sz)
  \/ \E d \in Durations : SetDuration(d)
  \/ \E level \in Levels : EnterPreview(level)
  \/ EnterFinal
  \/ \E error \in BOOLEAN : ExitScope(error)

SpecConfig == InitArgs /\ [][NextConfig]_vars

\* Rendering under size, preview-level and layer changes.
InitRender == Construct(<<4, 2>>, 1)

\* add_layer(video, transform=Transform(), offset=offset)
AddPainted(offset) ==
  /\ Len(layers) < MaxPainted
  /\ AddLayer("vid", NoName, OriginTransform, offset, 0, NoEnd, TRUE, FALSE)

NextRender ==
  \/ AddPainted(0)
  \/ DelItem(DefaultName(0))
  \/ \E sz \in Sizes : SetSize(sz)
  \/ EnterPreview(2)
  \/ ExitScope(FALSE)
  \/ \E time \in Times : Render(time)

SpecRender == InitRender /\ [][NextRender]_vars

\* The composite key of layers added with time windows and visibility.
AddKeyed(layer, offset, start_time, endArg, visible) ==
  /\ Len(layers) < MaxPainted
  /\ AddLayer(layer, NoName, OriginTransform, offset, start_time, endArg, visible, FALSE)

NextKey ==
  \/ \E l \in Layers, o \in Offsets, st \in StartTimes, e \in EndTimeArgs,
        v \in BOOLEAN :
       AddKeyed(l, o, st, e, v)
  \/ \E n \in Names : DelItem(n)
  \/ \E time \in Times : GetKeyAt(time)

SpecKey == Init /\ [][NextKey]_vars

\* Composition(size=(4, 2), duration=0.4)
InitVideo == Construct(<<4, 2>>, 4)

\* Exporting with a cache that earlier renders have filled.
NextVideo ==
  \/ \E o \in Offsets : AddPainted(o)
  \/ DelItem(DefaultName(0))
  \/ \E d \in VideoEnds \ {NoEnd} : SetDuration(d)
  \/ \E time \in Times : Render(time)
  \/ \E st \in VideoStarts, e \in VideoEnds : WriteVideo(st, e)

SpecVideo == InitVideo /\ [][NextVideo]_vars

\* ------------------------------------------------------------------ claims
\* C1: after any sequence of add_layer, __setitem__ and pop_layer calls no two
\* Components in the ordered layer list have the same name.
C1_UniqueNames ==
  \A i \in 1..Len(layers), j \in 1..Len(layers) :
    i # j => comps[layers[i]].name # comps[layers[j]].name

\* C2: the name index and the layer list agree: a name resolves if and only if
\* a Component with that name is in the layer list, and it resolves to such a
\* Component; so after pop_layer(name) the name no longer resolves, even
\* while the caller holds the returned Component.
C2_IndexMatchesLayers ==
  \A n \in Names :
    /\ InIndex(name_to_layer, n) <=> Named(layers, comps, n) # {}
    /\ InIndex(name_to_layer, n) =>
         \E i \in Named(layers, comps, n) : layers[i] = name_to_layer[n]

\* C3: add_layer with a name that a Component in the layer list already has
\* fails with KeyError and leaves the layer list and the name index unchanged.
C3_DuplicateAddFails ==
  [][(last'.op = "add_layer" /\ Named(layers, comps, last'.name) # {})
       => (last'.err = "KeyError" /\ UNCHANGED <<layers, name_to_layer>>)]_vars

\* C4: pop_layer(name) fails with KeyError and changes nothing when no
\* Component named name is in the layer list (also when that name was popped
\* before and the popped Component is still referenced); otherwise it removes
\* exactly one Component of that name from the layer list and returns it.
C4_PopLayerContract ==
  [][last'.op = "pop_layer" =>
       IF Named(layers, comps, last'.name) = {}
       THEN last'.err = "KeyError" /\ UNCHANGED <<layers, name_to_layer>>
       ELSE /\ last'.ok
            /\ \E i \in Named(layers, comps, last'.name) :
                 layers' = RemoveAt(layers, i) /\ last'.ret = layers[i]]_vars

\* C5: after a successful enable_alpha_matte(source_name, target_name) of two
\* different names the target is not in the layer list, its name is not in
\* keys(), and looking target_name up by name fails.
C5_TargetNotRetrievable ==
  (/\ last.op = "enable_alpha_matte"
   /\ last.ok
   /\ last.name # last.arg
   /\ last.ret \in alive) =>
    /\ comps[last.ret].matte \notin Range(layers)
    /\ last.arg \notin Range(keys)
    /\ ~InIndex(name_to_layer, last.arg)

\* C6: the frame render(t) returns has the shape (size[1] // preview_level,
\* size[0] // preview_level) of the size and preview level in force at the
\* call; an entry cached at another shape is evicted and replaced by a frame
\* of the current shape.
C6_FrameHasCurrentShape ==
  last.op = "render" =>
    /\ last.frame.shape = CurrentShape(size, preview_level)
    /\ last.path = "evict" =>
         /\ CacheHas(cache, GetKey(layers, comps, last.t))
         /\ CacheGet(cache, GetKey(layers, comps, last.t)).shape
              = CurrentShape(size, preview_level)

\* A render found an entry of another shape under its key and replaced it.
C6_Witness ==
  /\ last.op = "render"
  /\ last.path = "evict"
  /\ preview_level = 2
  /\ last.frame.shape = <<1, 2>>

\* C7: a frame render(t) returns from the cache equals the frame a render
\* without a cache would compute from the current preview level, size and
\* layers.
C7_HitIsFresh ==
  (last.op = "render" /\ last.path = "hit") =>
    last.frame = Compute(layers, comps, size, preview_level, last.t)

\* C8: a render(t) that directly follows a render(t) takes the cache-hit path,
\* returns the same frame and leaves the cache as it was.
C8_RenderIdempotent ==
  [][(last.op = "render" /\ last'.op = "render" /\ last'.t = last.t)
       => (last'.path = "hit" /\ last'.frame = last.frame /\ cache' = cache)]_vars

\* The second of two successive renders of a time at which a layer paints.
C8_Witness ==
  /\ last.op = "render"
  /\ last.again
  /\ last.path = "hit"
  /\ last.frame.paint # <<>>

\* C9: when a preview() or final() scope is left, normally or by an error,
\* preview_level is the level that was in force when the scope was entered;
\* outside all scopes it is the level of construction.
C9_ScopeRestoresLevel ==
  /\ last.op = "exit_scope" => preview_level = last.entered
  /\ scopes = <<>> => preview_level = 1

\* A final() scope nested in a preview(2) scope is left by an error.
C9_Witness ==
  /\ last.op = "exit_scope"
  /\ last.name = "final"
  /\ last.err = "Raised"
  /\ Len(scopes) = 1
  /\ last.entered = 2
  /\ preview_level = 2

\* C10: in every state, the one after construction included, size has two
\* positive components, duration is positive and preview_level is at least 1.
C10_ValidConfiguration ==
  /\ Len(size) = 2
  /\ size[1] > 0
  /\ size[2] > 0
  /\ duration > 0
  /\ preview_level >= 1


\* The Component is active at layer time lt: inside its window and visible.
C11_Active(c, lt) == c.start_time <= lt /\ lt < c.end_time /\ c.visible

\* C11: the composite key of time t has 1 + len(layers) elements, the first
\* is the composition tag, and element i + 1 is the absent marker exactly when
\* the i-th Component is not active at t (inside its window and visible);
\* otherwise it is that Component's sub-key at layer time t - offset.
C11_KeyShape ==
  last.op = "get_key" =>
    /\ Len(last.key) = 1 + Len(layers)
    /\ last.key[1] = "COMPOSITION"
    /\ \A i \in 1..Len(layers) :
         LET c == comps[layers[i]]
             lt == last.t - c.offset
         IN IF C11_Active(c, lt)
            THEN last.key[i + 1] = SubKey(comps, layers[i], lt)
            ELSE last.key[i + 1] = Absent

\* C18: the window of the composite key is half-open in layer time: the entry
\* of a Component with a window [start_time, end_time) is not absent at layer
\* time start_time and at every layer time of the window below end_time, and
\* it is absent at layer time end_time and below start_time.
C18_HalfOpenWindow ==
  last.op = "get_key" =>
    \A i \in 1..Len(layers) :
      LET c == comps[layers[i]]
          lt == last.t - c.offset
          entry == last.key[i + 1]
      IN /\ (lt = c.start_time /\ c.start_time < c.end_time) => entry # Absent
         /\ (c.start_time <= lt /\ lt < c.end_time) => entry # Absent
         /\ lt = c.end_time => entry = Absent
         /\ lt < c.start_time => entry = Absent

\* The key is taken at t - offset == end_time of a shifted, non-empty window.
C18_Witness ==
  /\ last.op = "get_key"
  /\ Len(layers) = 1
  /\ comps[layers[1]].offset = 1
  /\ comps[layers[1]].start_time < comps[layers[1]].end_time
  /\ last.t - comps[layers[1]].offset = comps[layers[1]].end_time
  /\ last.key[2] = Absent


\* C12: render(t) changes nothing but the cache: the layer list, the name
\* index, the Components with their matte links, size, duration and
\* preview_level are after the call what they were before it.
C12_RenderTouchesOnlyCache ==
  [][last'.op = "render" =>
       UNCHANGED <<layers, name_to_layer, comps, alive, size, duration,
                   preview_level>>]_vars

\* A render under preview level 2 that missed the cache and painted a layer.
C12_Witness ==
  /\ last.op = "render"
  /\ last.path = "miss"
  /\ last.frame.paint # <<>>
  /\ preview_level = 2


\* C13: enable_alpha_matte in which the source name or the target name is not
\* the name of a Component currently in the layer list fails, and leaves the
\* layer list, the name index and the Components as they were.
C13_MatteNamesMustBeLayers ==
  [][(/\ last'.op = "enable_alpha_matte"
      /\ \/ Named(layers, comps, last'.name) = {}
         \/ Named(layers, comps, last'.arg) = {})
     => (/\ ~last'.ok
         /\ UNCHANGED <<layers, name_to_layer, comps>>)]_vars


\* C15: after a successful enable_alpha_matte the returned source Component
\* is still in the layer list and its matte target is another Component;
\* a call with source_name = target_name never removes the source from the
\* list and never links a Component to itself.
C15_SourceStaysAndNoSelfLink ==
  [][last'.op = "enable_alpha_matte" =>
       /\ last'.ok => /\ last'.ret \in Range(layers')
                      /\ comps'[last'.ret].matte # last'.ret
       /\ last'.name = last'.arg => layers' = layers]_vars


\* C14: enable_alpha_matte on a source that is in the layer list and already
\* has a matte target fails, and afterwards the new target is still in the
\* layer list at its previous position and the old target is still attached
\* to the source.
C14_RelinkFailsCleanly ==
  [][(/\ last'.op = "enable_alpha_matte"
      /\ last'.name # last'.arg
      /\ \A c \in alive, d \in alive : comps[c].name = comps[d].name => c = d
      /\ InIndex(name_to_layer, last'.name)
      /\ name_to_layer[last'.name] \in Range(layers)
      /\ comps[name_to_layer[last'.name]].matte # NoId
      /\ InIndex(name_to_layer, last'.arg)
      /\ Named(layers, comps, last'.arg) # {})
     => (/\ ~last'.ok
         /\ layers' = layers
         /\ comps'[name_to_layer[last'.name]].matte
              = comps[name_to_layer[last'.name]].matte)]_vars


\* C16: disable_alpha_matte(name) leaves the layer list as it was and returns
\* the detached target; a Component enters the layer list only by add_layer or
\* __setitem__; with a name the index does not resolve the call fails with
\* KeyError and changes nothing.
C16_DisableLeavesLayers ==
  [][/\ last'.op = "disable_alpha_matte" =>
          /\ layers' = layers
          /\ IF InIndex(name_to_layer, last'.name)
             THEN /\ last'.ok
                  /\ last'.ret = comps[name_to_layer[last'.name]].matte
                  /\ name_to_layer[last'.name] \in alive' =>
                       comps'[name_to_layer[last'.name]].matte = NoId
             ELSE /\ ~last'.ok
                  /\ last'.err = "KeyError"
                  /\ UNCHANGED <<name_to_layer, comps, alive, held>>
     /\ (\E c \in Range(layers') : c \notin Range(layers)) =>
          last'.op \in {"add_layer", "setitem"}]_vars

\* A disable that returned a target which is in no layer list, with the
\* caller keeping it.
C16_Witness ==
  /\ last.op = "disable_alpha_matte"
  /\ last.ok
  /\ last.ret # NoId
  /\ last.ret \in held
  /\ last.ret \notin Range(layers)
  /\ layers # <<>>


\* The indices of the layers that are visible and inside their window at the
\* global time t.
C17_Painted(t) ==
  {i \in 1..Len(layers) :
     /\ comps[layers[i]].visible
     /\ comps[layers[i]].start_time <= t - comps[layers[i]].offset
     /\ t - comps[layers[i]].offset < comps[layers[i]].end_time}

\* C17: paint order is insertion order. A successful add_layer appends the new
\* Component to the layer list, pop_layer removes the one named Component and
\* keeps the order of the rest, and a render that computes its frame applies
\* the contributions of the painted layers in increasing index order.
C17_PaintOrderIsInsertionOrder ==
  [][/\ (last'.op = "add_layer" /\ last'.ok) =>
          layers' = Append(layers, last'.ret)
     /\ (last'.op = "pop_layer" /\ last'.ok) =>
          \E i \in 1..Len(layers) :
            /\ comps[layers[i]].name = last'.name
            /\ last'.ret = layers[i]
            /\ layers' = SubSeq(layers, 1, i - 1)
                            \o SubSeq(layers, i + 1, Len(layers))
     /\ (last'.op = "pop_layer" /\ ~last'.ok) => layers' = layers
     /\ (last'.op = "render" /\ last'.path # "hit") =>
          /\ Len(last'.frame.paint) = Cardinality(C17_Painted(last'.t))
          /\ \A i \in C17_Painted(last'.t) :
               last'.frame.paint[Cardinality({j \in C17_Painted(last'.t) : j <= i})]
                 = <<SubKey(comps, layers[i], last'.t - comps[layers[i]].offset),
                     preview_level>>]_vars

\* A computed frame with two different contributions, from a list that a pop
\* and an add have reordered.
C17_Witness ==
  /\ last.op = "render"
  /\ last.path # "hit"
  /\ Len(last.frame.paint) = 2
  /\ last.frame.paint[1] # last.frame.paint[2]
  /\ layers[1] > layers[2]


\* C19: write_video renders once per timestamp, in increasing time order, at
\* timestamps inside [start_time, end_time), and when it has completed the
\* cache is empty.
C19_ExportCoversRange ==
  last.op = "write_video" =>
    /\ cache = <<>>
    /\ \A i \in 1..Len(last.times) :
         /\ last.t <= last.times[i]
         /\ last.times[i] < last.end_time
         /\ i > 1 => last.times[i - 1] < last.times[i]

====
